---- MODULE Spec2Model ----
(***************************************************************************)
(* Model of extra/find_largest_tags.py: the tag aggregation and ranking    *)
(* report over an awtfdb index.  One run of main() is a state machine:     *)
(* parse the limit, open the store, scan the files table (stat each path   *)
(* once, insert the path under each tag of the file), rank the tags, and   *)
(* print one line per ranked tag.                                          *)
(***************************************************************************)
EXTENDS Integers, Sequences, FiniteSets, TLC

\* ------------------------------------------------------------------ bounds
MaxRows == 2

\* ------------------------------------------------- constants of the program
DefaultLimit == 50
GB == 1024 * 1024 * 1024

FileHashes == {"A", "B"}
Paths      == {"/a", "/b"}
CoreHashes == {"T1", "T2"}

\* the sizes a file on disk may have
HalfGB == GB \div 2
FileSizes == {HalfGB - 1, HalfGB}

\* the strings tried as sys.argv[1] and as SORT_BY_COUNT_WITH_MIN_GB
LimitStrings == {"x", "-1", "0", "1"}
None == "<None>"
FloorValues == {None, "", "0", "1", "x"}

VARIABLES
    argv,        \* the arguments after the program name
    files,       \* the rows of table files, in the order the scan yields them
    tag_files,   \* the relation tag_files join hashes: <<file_hash, core_hash>>
    fs,          \* the paths that exist on disk -> their size
    pc,          \* where main() is
    err,         \* the exception that ended the run, or None
    limit,
    idx,         \* rows of files consumed so far
    local_path,  \* path of the row being processed
    tcur,        \* tags of the current row not yet fetched
    stat_map,
    tagmap,      \* insertion-ordered dict: sequence of [k, v]
    statCalls,   \* path -> number of stat() calls made
    sort_by_count_with_min_gb,
    sorted_tag_keys,
    pos,         \* entries of sorted_tag_keys[:limit] already handled
    out          \* the report lines printed on stdout

vars == <<argv, files, tag_files, fs, pc, err, limit, idx, local_path, tcur,
          stat_map, tagmap, statCalls, sort_by_count_with_min_gb,
          sorted_tag_keys, pos, out>>

inputs == <<argv, files, tag_files, fs>>

\* ----------------------------------------------------------------- helpers
Min(a, b) == IF a <= b THEN a ELSE b
Max(a, b) == IF a >= b THEN a ELSE b

RECURSIVE SumOver(_, _)
SumOver(S, f) ==
    IF S = {} THEN 0
    ELSE LET x == CHOOSE y \in S : TRUE IN f[x] + SumOver(S \ {x}, f)

SeqsUpTo(S, n) == UNION {[1..k -> S] : k \in 0..n}

\* int(s) of the strings in play: the integer, or ValueError
IsIntString(s) == s \in {"-1", "0", "1"}
IntOf(s) == CASE s = "-1" -> -1 [] s = "0" -> 0 [] s = "1" -> 1

\* Python truthiness of an Optional[str]
Truthy(v) == v # None /\ v # ""

\* ------------------------------------------------------- the dict tagmap
Keys(tm) == [i \in DOMAIN tm |-> tm[i].k]
KeySet(tm) == {tm[i].k : i \in DOMAIN tm}
Get(tm, k) == tm[CHOOSE i \in DOMAIN tm : tm[i].k = k].v

TagInsert_overwrite(tm, core_hash, p) ==
    IF core_hash \notin KeySet(tm)
    THEN Append(tm, [k |-> core_hash, v |-> {p}])
    ELSE [i \in DOMAIN tm |->
            IF tm[i].k = core_hash THEN [k |-> core_hash, v |-> {p}]
            ELSE tm[i]]

TagInsert_first(tm, core_hash, p) ==
    IF core_hash \notin KeySet(tm)
    THEN Append(tm, [k |-> core_hash, v |-> {p}])
    ELSE tm

\* lines 55-58
TagInsert(tm, core_hash, p) ==
    IF core_hash \notin KeySet(tm)
    THEN Append(tm, [k |-> core_hash, v |-> {p}])
    ELSE [i \in DOMAIN tm |->
            IF tm[i].k = core_hash
            THEN [k |-> core_hash, v |-> tm[i].v \cup {p}]
            ELSE tm[i]]

\* the rows the tag query returns for a file (lines 43-52)
TagsOfFile(file_hash) == {t \in CoreHashes : <<file_hash, t>> \in tag_files}

NeedsStat_always(sm, p) == TRUE

\* line 39
NeedsStat(sm, p) == p \notin DOMAIN sm

\* line 40: stat_map[local_path] = ...st_size
StatInsert(sm, p, size) ==
    [q \in DOMAIN sm \cup {p} |-> IF q = p THEN size ELSE sm[q]]

\* lines 54-58 for a whole tag cursor
RECURSIVE InsertAll(_, _, _)
InsertAll(tm, tags, p) ==
    IF tags = {} THEN tm
    ELSE LET t == CHOOSE x \in tags : TRUE
         IN InsertAll(TagInsert(tm, t, p), tags \ {t}, p)

\* lines 37-58 as a function of the rows the scan yields
RECURSIVE Aggregate(_, _)
Aggregate(rows, acc) ==
    IF rows = <<>> \/ ~acc.ok THEN acc
    ELSE LET row == Head(rows)
             p   == row.local_path
         IN IF NeedsStat(acc.stat_map, p) /\ p \notin DOMAIN fs
            THEN [acc EXCEPT !.ok = FALSE]
            ELSE Aggregate(Tail(rows),
                   [ok |-> TRUE,
                    stat_map |-> IF NeedsStat(acc.stat_map, p)
                                 THEN StatInsert(acc.stat_map, p, fs[p])
                                 ELSE acc.stat_map,
                    tagmap |-> InsertAll(acc.tagmap, TagsOfFile(row.file_hash),
                                         p)])

\* -------------------------------------------------------------- ranking
_sort_by_total_size_whole_cache(sm, tm, core_hash) ==
    SumOver(DOMAIN sm, sm)

\* lines 65-66
_sort_by_total_size(sm, tm, core_hash) ==
    SumOver(Get(tm, core_hash), sm)

\* lines 68-69
_sort_by_count(tm, core_hash) == Cardinality(Get(tm, core_hash))

FloorMode_int(v) == v # None /\ IsIntString(v) /\ IntOf(v) # 0

\* line 73: if sort_by_count_with_min_gb:
FloorMode(v) == Truthy(v)

\* lines 76-77, the filter's predicate
PassesFloor(sm, tm, v, k) ==
    _sort_by_total_size(sm, tm, k) >= IntOf(v) * 1024 * 1024 * 1024

\* the filter is lazy: int() runs once per key, so it raises only when
\* there is a key to test (lines 75-79, consumed at line 85)
FilterRaises(tm, v) == FloorMode(v) /\ tm # <<>> /\ ~IsIntString(v)

\* lines 71-79
FilteredKeys(sm, tm, v) ==
    IF FloorMode(v)
    THEN SelectSeq(Keys(tm), LAMBDA k : PassesFloor(sm, tm, v, k))
    ELSE Keys(tm)

\* sorted(seq, key=..., reverse=...): stable in both directions
Sorted(seq, key, reverse) ==
    LET n == Len(seq)
        Before(j, i) ==
            \/ (IF reverse THEN key[seq[j]] > key[seq[i]]
                           ELSE key[seq[j]] < key[seq[i]])
            \/ (key[seq[j]] = key[seq[i]] /\ j < i)
        Rank(i) == Cardinality({j \in 1..n : Before(j, i)}) + 1
    IN [r \in 1..n |-> seq[CHOOSE i \in 1..n : Rank(i) = r]]

SortedTagKeys_ascending(sm, tm, v) ==
    LET keys == FilteredKeys(sm, tm, v)
        ks   == {keys[i] : i \in DOMAIN keys}
    IN IF FloorMode(v)
       THEN Sorted(keys, [k \in ks |-> _sort_by_count(tm, k)], FALSE)
       ELSE Sorted(keys, [k \in ks |-> _sort_by_total_size(sm, tm, k)], FALSE)

\* lines 73-85
SortedTagKeys(sm, tm, v) ==
    LET keys == FilteredKeys(sm, tm, v)
        ks   == {keys[i] : i \in DOMAIN keys}
    IN IF FloorMode(v)
       THEN Sorted(keys, [k \in ks |-> _sort_by_count(tm, k)], FALSE)
       ELSE Sorted(keys, [k \in ks |-> _sort_by_total_size(sm, tm, k)], TRUE)

\* seq[:n] (line 86): a negative n counts from the end
Slice(seq, n) ==
    IF n >= 0 THEN SubSeq(seq, 1, Min(n, Len(seq)))
    ELSE SubSeq(seq, 1, Max(Len(seq) + n, 0))

\* --------------------------------------------------------------- reporter
\* A float is kept as mantissa * 2^exp; dividing a float below 2^53 by 1024
\* is exact and lowers the exponent by 10 (lines 92-94).
ToFloat(n) == [m |-> n, e |-> 0]
Div1024(x) == [m |-> x.m, e |-> x.e - 10]

TagText(core_hash) == <<"tag_text", core_hash>>

\* lines 90-96
ReportLine(sm, tm, core_hash) ==
    LET used_bytes == _sort_by_total_size(sm, tm, core_hash)
        as_kb == Div1024(ToFloat(used_bytes))
        as_mb == Div1024(as_kb)
        as_gb == Div1024(as_mb)
    IN [core_hash |-> core_hash,
        tag_text  |-> TagText(core_hash),
        as_gb     |-> as_gb,
        count     |-> Cardinality(Get(tm, core_hash))]

\* ------------------------------------------------------------------- Init
Init ==
    /\ argv \in {<<>>} \cup {<<s>> : s \in LimitStrings}
    /\ files \in SeqsUpTo([file_hash : FileHashes, local_path : Paths], MaxRows)
    /\ tag_files \in SUBSET (FileHashes \X CoreHashes)
    /\ fs \in UNION {[S -> FileSizes] : S \in SUBSET Paths}
    /\ pc = "args"
    /\ err = None
    /\ limit = 0
    /\ idx = 0
    /\ local_path = ""
    /\ tcur = {}
    /\ stat_map = <<>>
    /\ tagmap = <<>>
    /\ statCalls = [p \in Paths |-> 0]
    /\ sort_by_count_with_min_gb = None
    /\ sorted_tag_keys = <<>>
    /\ pos = 0
    /\ out = <<>>

Fail(e) == pc' = "failed" /\ err' = e

\* ---------------------------------------------------------------- actions
\* lines 13-18
ParseLimit ==
    /\ pc = "args"
    /\ IF argv = <<>>
       THEN limit' = DefaultLimit /\ pc' = "connect" /\ err' = err
       ELSE IF IsIntString(argv[1])
            THEN limit' = IntOf(argv[1]) /\ pc' = "connect" /\ err' = err
            ELSE limit' = limit /\ Fail("ValueError: limit")
    /\ UNCHANGED <<inputs, idx, local_path, tcur, stat_map, tagmap, statCalls,
                   sort_by_count_with_min_gb, sorted_tag_keys, pos, out>>

\* lines 20-31: the store opens and answers the files query
Connect ==
    /\ pc = "connect"
    /\ pc' = "scan"
    /\ UNCHANGED <<inputs, err, limit, idx, local_path, tcur, stat_map, tagmap,
                   statCalls, sort_by_count_with_min_gb, sorted_tag_keys, pos,
                   out>>

\* lines 20-31: the store cannot be opened, or has no files table
ConnectFails ==
    /\ pc = "connect"
    /\ Fail("OperationalError")
    /\ UNCHANGED <<inputs, limit, idx, local_path, tcur, stat_map, tagmap,
                   statCalls, sort_by_count_with_min_gb, sorted_tag_keys, pos,
                   out>>

\* skip-and-warn instead of propagating the stat failure
ReadRow_skip ==
    /\ pc = "scan"
    /\ tcur = {}
    /\ idx < Len(files)
    /\ LET row == files[idx + 1] IN
       /\ idx' = idx + 1
       /\ local_path' = row.local_path
       /\ IF NeedsStat(stat_map, row.local_path)
          THEN /\ statCalls' = [statCalls EXCEPT ![row.local_path] = @ + 1]
               /\ IF row.local_path \in DOMAIN fs
                  THEN /\ stat_map' = StatInsert(stat_map, row.local_path,
                                                 fs[row.local_path])
                       /\ tcur' = TagsOfFile(row.file_hash)
                  ELSE UNCHANGED <<stat_map, tcur>>
          ELSE /\ tcur' = TagsOfFile(row.file_hash)
               /\ UNCHANGED <<statCalls, stat_map>>
    /\ UNCHANGED <<inputs, pc, err, limit, tagmap, sort_by_count_with_min_gb,
                   sorted_tag_keys, pos, out>>

\* lines 37-52: next row of files, stat its path if new, query its tags
ReadRow ==
    /\ pc = "scan"
    /\ tcur = {}
    /\ idx < Len(files)
    /\ LET row == files[idx + 1] IN
       /\ idx' = idx + 1
       /\ local_path' = row.local_path
       /\ IF NeedsStat(stat_map, row.local_path)
          THEN /\ statCalls' = [statCalls EXCEPT ![row.local_path] = @ + 1]
               /\ IF row.local_path \in DOMAIN fs
                  THEN /\ stat_map' = StatInsert(stat_map, row.local_path,
                                                 fs[row.local_path])
                       /\ tcur' = TagsOfFile(row.file_hash)
                       /\ UNCHANGED <<pc, err>>
                  ELSE /\ Fail("FileNotFoundError")
                       /\ UNCHANGED <<stat_map, tcur>>
          ELSE /\ tcur' = TagsOfFile(row.file_hash)
               /\ UNCHANGED <<statCalls, stat_map, pc, err>>
    /\ UNCHANGED <<inputs, limit, tagmap, sort_by_count_with_min_gb,
                   sorted_tag_keys, pos, out>>

\* lines 54-58: one row of the tag cursor, in whatever order the store gives
InsertTag ==
    /\ pc = "scan"
    /\ \E core_hash \in tcur :
        /\ tagmap' = TagInsert(tagmap, core_hash, local_path)
        /\ tcur' = tcur \ {core_hash}
    /\ UNCHANGED <<inputs, pc, err, limit, idx, local_path, stat_map,
                   statCalls, sort_by_count_with_min_gb, sorted_tag_keys, pos,
                   out>>

\* lines 59-85: the scan is over; read the floor from the environment,
\* filter and sort the keys
Rank ==
    /\ pc = "scan"
    /\ tcur = {}
    /\ idx = Len(files)
    /\ \E v \in FloorValues :
        /\ sort_by_count_with_min_gb' = v
        /\ IF FilterRaises(tagmap, v)
           THEN Fail("ValueError: floor") /\ UNCHANGED sorted_tag_keys
           ELSE /\ sorted_tag_keys' = SortedTagKeys(stat_map, tagmap, v)
                /\ pc' = "report"
                /\ err' = err
    /\ UNCHANGED <<inputs, limit, idx, local_path, tcur, stat_map, tagmap,
                   statCalls, pos, out>>

\* lines 86-96: one iteration of the report loop; the store has a
\* tag_names row for the tag
Emit ==
    /\ pc = "report"
    /\ pos < Len(Slice(sorted_tag_keys, limit))
    /\ LET core_hash == Slice(sorted_tag_keys, limit)[pos + 1] IN
        out' = Append(out, ReportLine(stat_map, tagmap, core_hash))
    /\ pos' = pos + 1
    /\ UNCHANGED <<inputs, pc, err, limit, idx, local_path, tcur, stat_map,
                   tagmap, statCalls, sort_by_count_with_min_gb,
                   sorted_tag_keys>>

\* lines 87-90: the store has no tag_names row for the tag; fetchone() gives
\* None and row["tag_text"] raises
EmitFails ==
    /\ pc = "report"
    /\ pos < Len(Slice(sorted_tag_keys, limit))
    /\ Fail("TypeError: tag_text")
    /\ UNCHANGED <<inputs, limit, idx, local_path, tcur, stat_map, tagmap,
                   statCalls, sort_by_count_with_min_gb, sorted_tag_keys, pos,
                   out>>

\* lines 98-100: the loop is over, main() returns
Finish ==
    /\ pc = "report"
    /\ pos = Len(Slice(sorted_tag_keys, limit))
    /\ pc' = "done"
    /\ UNCHANGED <<inputs, err, limit, idx, local_path, tcur, stat_map, tagmap,
                   statCalls, sort_by_count_with_min_gb, sorted_tag_keys, pos,
                   out>>

Next ==
    \/ ParseLimit
    \/ Connect
    \/ ConnectFails
    \/ ReadRow
    \/ InsertTag
    \/ Rank
    \/ Emit
    \/ EmitFails
    \/ Finish

Spec == Init /\ [][Next]_vars

TypeOK ==
    /\ pc \in {"args", "connect", "scan", "report", "done", "failed"}
    /\ idx \in 0..Len(files)
    /\ DOMAIN stat_map \subseteq Paths

\* ------------------------------------------- what the store and disk say
\* the distinct paths of a tag, read off the store
PathsOfTag(t) ==
    {files[i].local_path :
        i \in {j \in DOMAIN files : <<files[j].file_hash, t>> \in tag_files}}

StoreTags == {t \in CoreHashes : PathsOfTag(t) # {}}
TotalSizeOf(t) == SumOver(PathsOfTag(t), fs)
FileCountOf(t) == Cardinality(PathsOfTag(t))

\* the scan of files ran to its end
AggregationDone ==
    \/ pc \in {"report", "done"}
    \/ err \in {"ValueError: floor", "TypeError: tag_text"}

\* the scan of files has just ended: the record and the cache are final
ScanOver == pc = "scan" /\ idx = Len(files) /\ tcur = {}

\* the keys were ranked
Ranked == pc \in {"report", "done"} \/ err = "TypeError: tag_text"

Emitted == {out[i].core_hash : i \in DOMAIN out}
AsMap(tm) == [k \in KeySet(tm) |-> Get(tm, k)]
PermsOf(seq) ==
    {[i \in DOMAIN seq |-> seq[f[i]]] : f \in Permutations(DOMAIN seq)}

\* two rows of different files give the same path, both under tag t
TwiceUnder(t) ==
    \E i, j \in DOMAIN files :
        /\ files[i].file_hash # files[j].file_hash
        /\ files[i].local_path = files[j].local_path
        /\ <<files[i].file_hash, t>> \in tag_files
        /\ <<files[j].file_hash, t>> \in tag_files

\* ------------------------------------------------------------------ claims
\* C1: with the floor unset the emitted tags are in descending order of
\* total size, and no tag left out is larger than an emitted one.
C1_DefaultSortedBySize ==
    (Ranked /\ sort_by_count_with_min_gb = None) =>
        /\ \A i \in 1..(Len(out) - 1) :
              TotalSizeOf(out[i].core_hash) >= TotalSizeOf(out[i + 1].core_hash)
        /\ \A t \in StoreTags \ Emitted : \A i \in DOMAIN out :
              TotalSizeOf(t) <= TotalSizeOf(out[i].core_hash)

C1_Witness ==
    /\ pc = "done"
    /\ sort_by_count_with_min_gb = None
    /\ Len(out) = 2
    /\ TotalSizeOf(out[1].core_hash) > TotalSizeOf(out[2].core_hash)
    /\ tagmap[1].k = out[2].core_hash

\* C2: with the floor set to an integer N, 0 included, only tags of at
\* least N GiB are emitted and they come in ascending order of file count.
C2_FloorFilterAndCountOrder ==
    (Ranked /\ sort_by_count_with_min_gb \in {"-1", "0", "1"}) =>
        /\ \A i \in DOMAIN out :
              TotalSizeOf(out[i].core_hash)
                  >= IntOf(sort_by_count_with_min_gb) * GB
        /\ \A i \in 1..(Len(out) - 1) :
              FileCountOf(out[i].core_hash) <= FileCountOf(out[i + 1].core_hash)

C2_Witness ==
    /\ pc = "done"
    /\ sort_by_count_with_min_gb = "0"
    /\ Len(out) = 2
    /\ FileCountOf(out[1].core_hash) < FileCountOf(out[2].core_hash)
    /\ tagmap[1].k = out[2].core_hash

\* C3: a run that completes has emitted min(limit, eligible tags) lines
\* (no lines when that minimum is negative, a count being at least 0).
EligibleTags ==
    IF sort_by_count_with_min_gb \in {"-1", "0", "1"}
    THEN {t \in StoreTags :
             TotalSizeOf(t) >= IntOf(sort_by_count_with_min_gb) * GB}
    ELSE StoreTags

C3_OutputLength ==
    pc = "done" => Len(out) = Max(0, Min(limit, Cardinality(EligibleTags)))

\* C4: every report line carries the sum of the sizes of the tag's distinct
\* paths, scaled to GiB, and the number of those paths.
C4_ReportedSizeAndCount ==
    \A i \in DOMAIN out :
        /\ out[i].as_gb = [m |-> TotalSizeOf(out[i].core_hash), e |-> -30]
        /\ out[i].count = FileCountOf(out[i].core_hash)

C4_Witness ==
    \E i \in DOMAIN out :
        /\ TwiceUnder(out[i].core_hash)
        /\ \E t \in StoreTags \ {out[i].core_hash} :
              PathsOfTag(t) \cap PathsOfTag(out[i].core_hash) # {}

\* C5: when some row of files names a path that cannot be stat-ed, the scan
\* never gets past that row, the run never ranks nor completes, and nothing
\* is printed.
C5_MissingPathFatal ==
    \A i \in DOMAIN files :
        files[i].local_path \notin DOMAIN fs =>
            /\ idx <= i
            /\ pc \notin {"report", "done"}
            /\ out = <<>>
            /\ (idx = i => pc = "failed")

C5_Witness ==
    /\ err = "FileNotFoundError"
    /\ idx = 2
    /\ TagsOfFile(files[2].file_hash) = {}
    /\ tagmap # <<>>

\* C6: a run that failed has printed no report line.
C6_NoPartialReport ==
    pc = "failed" => out = <<>>

\* C7: an invalid limit or floor ends the run before any row is read, any
\* path stat-ed or any tag aggregated.
ConfigInvalid ==
    \/ (argv # <<>> /\ ~IsIntString(argv[1]))
    \/ sort_by_count_with_min_gb = "x"

C7_ConfigInvalidBeforeEngine ==
    ConfigInvalid =>
        /\ idx = 0
        /\ stat_map = <<>>
        /\ tagmap = <<>>
        /\ pc \in {"args", "failed"}

\* C8: a path is stat-ed at most once, a cached size never changes or
\* disappears, and no stat happens once the scan is over.
C8_StatOnce ==
    [][/\ \A p \in Paths : statCalls'[p] <= 1
       /\ \A p \in DOMAIN stat_map :
             p \in DOMAIN stat_map' /\ stat_map'[p] = stat_map[p]
       /\ (statCalls' # statCalls => pc = "scan" /\ idx' = idx + 1)
       /\ (pc' \in {"report", "done"} => statCalls' = statCalls)]_vars

C8_Witness ==
    /\ pc = "done"
    /\ Len(files) = 2
    /\ files[1].local_path = files[2].local_path
    /\ files[1].file_hash # files[2].file_hash
    /\ TagsOfFile(files[1].file_hash) # TagsOfFile(files[2].file_hash)
    /\ statCalls[files[1].local_path] = 1
    /\ out # <<>>

\* C9: every tag of the aggregation record has a path; entries and paths are
\* only added; after the scan the record holds, for each tag, exactly the
\* paths of the rows whose file carries the tag.
AggregationSound ==
    /\ \A i \in DOMAIN tagmap : tagmap[i].v # {}
    /\ Len(tagmap) = Cardinality(KeySet(tagmap))
    /\ AggregationDone =>
          /\ KeySet(tagmap) = StoreTags
          /\ \A t \in StoreTags :
                /\ Get(tagmap, t) = PathsOfTag(t)
                /\ _sort_by_count(tagmap, t) = FileCountOf(t)

C9_AggregationRecord ==
    [][/\ AggregationSound'
       /\ \A i \in DOMAIN tagmap :
             /\ i \in DOMAIN tagmap'
             /\ tagmap'[i].k = tagmap[i].k
             /\ tagmap[i].v \subseteq tagmap'[i].v]_vars

C9_Witness ==
    /\ AggregationDone
    /\ \E t \in KeySet(tagmap) : TwiceUnder(t) /\ Cardinality(Get(tagmap, t)) = 1

\* C10: the record and the size cache at the end of the scan, and so every
\* tag's total size and file count, are those of every other order of the
\* same rows; a scan that fails on a missing path fails in every order.
C10_OrderIrrelevant ==
    LET start == [ok |-> TRUE, stat_map |-> <<>>, tagmap |-> <<>>] IN
    /\ ScanOver =>
          \A rows \in PermsOf(files) :
              LET r == Aggregate(rows, start) IN
              /\ r.ok
              /\ AsMap(r.tagmap) = AsMap(tagmap)
              /\ r.stat_map = stat_map
              /\ \A t \in KeySet(tagmap) :
                    /\ _sort_by_total_size(r.stat_map, r.tagmap, t)
                          = _sort_by_total_size(stat_map, tagmap, t)
                    /\ _sort_by_count(r.tagmap, t) = _sort_by_count(tagmap, t)
    /\ err = "FileNotFoundError" =>
          \A rows \in PermsOf(files) : ~Aggregate(rows, start).ok

C10_Witness ==
    /\ ScanOver
    /\ Len(files) = 2
    /\ files[1].local_path # files[2].local_path
    /\ TagsOfFile(files[1].file_hash) \cap TagsOfFile(files[2].file_hash) # {}
    /\ Len(tagmap) = 2
====
